---- MODULE Spec2Model ----
(***************************************************************************)
(* REINFORCE training loop of                                              *)
(* day05/policy_gradients/policy_gradients_pytorch.ipynb:                  *)
(* select_action, finish_episode and main, one action per statement.       *)
(*                                                                         *)
(* Floating point numbers are modelled as exact rationals <<num, den>>     *)
(* (den > 0, lowest terms).  A normalised return (line 179),               *)
(* (x - mean) / (std + eps), is kept symbolically as the record            *)
(* [nan, dev, var]: dev = x - mean, var = the unbiased variance that       *)
(* torch's std() takes the root of, nan = the variance is 0/0.             *)
(* The network weights are abstracted to the number of optimizer steps     *)
(* applied to each of the two layers; the gradient to the identities       *)
(* <<episode, timestep>> of the contributions accumulated in it.           *)
(* The progress report (lines 285-289) only formats text and is left out.  *)
(***************************************************************************)
EXTENDS Integers, Sequences, FiniteSets, TLC

\* ---- bounds ----
MaxEpisodes == 2      \* episodes of count(1) that are explored
StepCap == 3          \* stands for range(10000) of line 274

\* ---- inputs ----
Rewards == {0, 1}
Gammas == {<<0, 1>>, <<1, 2>>, <<1, 1>>}
Thresholds == {<<9, 1>>, <<991, 100>>, <<195, 1>>}

VARIABLES pc, interrupted, i_episode, t, done, saved_actions, rewards,
          fe_rewards, k, grad, params, running_reward, reward_threshold, gamma

vars == <<pc, interrupted, i_episode, t, done, saved_actions, rewards,
          fe_rewards, k, grad, params, running_reward, reward_threshold, gamma>>

\* ---- exact arithmetic ----
Abs(n) == IF n < 0 THEN -n ELSE n

\* Euclid, as a function so that the arguments are values
gcd[a \in Nat, b \in Nat] == IF b = 0 THEN a ELSE gcd[b, a % b]

GCD(a, b) == gcd[a, b]

LCM(a, b) == (a \div GCD(a, b)) * b

Norm(n, d) == LET g == GCD(Abs(n), d) IN <<n \div g, d \div g>>

RatAdd(a, b) == LET l == LCM(a[2], b[2])
                IN  Norm(a[1] * (l \div a[2]) + b[1] * (l \div b[2]), l)

RatNeg(a) == <<-a[1], a[2]>>

RatSub(a, b) == RatAdd(a, RatNeg(b))

RatMul(a, b) == Norm(a[1] * b[1], a[2] * b[2])

RatDivInt(a, n) == Norm(a[1], a[2] * n)

RatOfInt(n) == <<n, 1>>

RatGT(a, b) == LET l == LCM(a[2], b[2])
               IN  a[1] * (l \div a[2]) > b[1] * (l \div b[2])

Min(a, b) == IF a < b THEN a ELSE b

Reverse(s) == [i \in 1..Len(s) |-> s[Len(s) + 1 - i]]

\* ---- finish_episode, lines 173-177 ----
\* the loop over policy.rewards[::-1]: rev is what is left of the reversed
\* list, R the accumulator, out the list built by insert(0, R)
RECURSIVE ReturnsLoopAppend(_, _, _, _)
ReturnsLoopAppend(rev, R, out, g) ==
    IF rev = <<>> THEN out
    ELSE LET R2 == RatAdd(RatOfInt(Head(rev)), RatMul(g, R))
         IN  ReturnsLoopAppend(Tail(rev), R2, Append(out, R2), g)

RECURSIVE ReturnsLoop(_, _, _, _)
ReturnsLoop(rev, R, out, g) ==
    IF rev = <<>> THEN out
    ELSE LET R2 == RatAdd(RatOfInt(Head(rev)), RatMul(g, R))
         IN  ReturnsLoop(Tail(rev), R2, <<R2>> \o out, g)

DiscountedReturnsAppend(rs, g) == ReturnsLoopAppend(Reverse(rs), RatOfInt(0), <<>>, g)

DiscountedReturns(rs, g) == ReturnsLoop(Reverse(rs), RatOfInt(0), <<>>, g)

\* ---- finish_episode, lines 178-179 ----
RECURSIVE RatSum(_)
RatSum(s) == IF s = <<>> THEN RatOfInt(0) ELSE RatAdd(Head(s), RatSum(Tail(s)))

Mean(s) == RatDivInt(RatSum(s), Len(s))

\* torch's Tensor.std(): the unbiased estimator, sum of squares over n - 1;
\* for n = 1 that is 0/0
StdIsNaN(s) == Len(s) = 1

Variance(s) ==
    LET m == Mean(s)
        sq == [i \in 1..Len(s) |-> RatMul(RatSub(s[i], m), RatSub(s[i], m))]
    IN  IF StdIsNaN(s) THEN RatOfInt(0) ELSE RatDivInt(RatSum(sq), Len(s) - 1)

Normalized(s) ==
    [i \in 1..Len(s) |->
        [nan |-> StdIsNaN(s), dev |-> RatSub(s[i], Mean(s)), var |-> Variance(s)]]

\* value of dev / (sqrt(var) + eps): zero exactly when it is a number and dev = 0
NormIsFinite(v) == ~v.nan
NormIsZero(v) == ~v.nan /\ v.dev[1] = 0

\* ---- the state after "policy = Policy()" ... "running_reward = 10" ----
Init ==
    /\ pc = "reset"
    /\ interrupted = FALSE
    /\ i_episode = 0
    /\ t = 0
    /\ done = FALSE
    /\ saved_actions = <<>>
    /\ rewards = <<>>
    /\ fe_rewards = <<>>
    /\ k = 0
    /\ grad = <<>>
    /\ params = [affine1 |-> 0, affine2 |-> 0]
    /\ running_reward = RatOfInt(10)
    /\ reward_threshold \in Thresholds
    /\ gamma \in Gammas

\* ---- main, lines 271-274 ----
Reset ==
    /\ pc = "reset" /\ ~interrupted
    /\ i_episode < MaxEpisodes
    /\ i_episode' = i_episode + 1
    /\ t' = 0
    /\ done' = FALSE
    /\ pc' = "select"
    /\ UNCHANGED <<interrupted, saved_actions, rewards, fe_rewards, k, grad,
                   params, running_reward, reward_threshold, gamma>>

\* ---- main line 275, select_action lines 158-163 ----
SelectActionNoAppend ==
    /\ pc = "select" /\ ~interrupted
    /\ pc' = "step"
    /\ UNCHANGED <<interrupted, i_episode, t, done, saved_actions, rewards,
                   fe_rewards, k, grad, params, running_reward,
                   reward_threshold, gamma>>

SelectActionOnline ==
    /\ pc = "select" /\ ~interrupted
    /\ saved_actions' = Append(saved_actions,
                               [ep |-> i_episode, t |-> t, reward |-> <<>>])
    /\ params' = [affine1 |-> params.affine1 + 1, affine2 |-> params.affine2 + 1]
    /\ pc' = "step"
    /\ UNCHANGED <<interrupted, i_episode, t, done, rewards, fe_rewards, k,
                   grad, running_reward, reward_threshold, gamma>>

SelectAction ==
    /\ pc = "select" /\ ~interrupted
    /\ saved_actions' = Append(saved_actions,
                               [ep |-> i_episode, t |-> t, reward |-> <<>>])
    /\ pc' = "step"
    /\ UNCHANGED <<interrupted, i_episode, t, done, rewards, fe_rewards, k,
                   grad, params, running_reward, reward_threshold, gamma>>

\* ---- main, lines 276-281 and the loop header 274 ----
EnvStepCapPlusOne ==
    /\ pc = "step" /\ ~interrupted
    /\ \E reward \in Rewards, d \in BOOLEAN :
         /\ rewards' = Append(rewards, reward)
         /\ done' = d
         /\ IF d \/ t + 1 = StepCap + 1
               THEN pc' = "running" /\ t' = t
               ELSE pc' = "select" /\ t' = t + 1
    /\ UNCHANGED <<interrupted, i_episode, saved_actions, fe_rewards, k, grad,
                   params, running_reward, reward_threshold, gamma>>

EnvStep ==
    /\ pc = "step" /\ ~interrupted
    /\ \E reward \in Rewards, d \in BOOLEAN :
         /\ rewards' = Append(rewards, reward)
         /\ done' = d
         /\ IF d \/ t + 1 = StepCap
               THEN pc' = "running" /\ t' = t
               ELSE pc' = "select" /\ t' = t + 1
    /\ UNCHANGED <<interrupted, i_episode, saved_actions, fe_rewards, k, grad,
                   params, running_reward, reward_threshold, gamma>>

\* ---- main, line 283 ----
UpdateRunningReward ==
    /\ pc = "running" /\ ~interrupted
    /\ running_reward' = RatAdd(RatMul(running_reward, <<99, 100>>),
                                RatMul(RatOfInt(t), <<1, 100>>))
    /\ pc' = "fe_returns"
    /\ UNCHANGED <<interrupted, i_episode, t, done, saved_actions, rewards,
                   fe_rewards, k, grad, params, reward_threshold, gamma>>

\* ---- finish_episode, lines 173-177 ----
ComputeReturns ==
    /\ pc = "fe_returns" /\ ~interrupted
    /\ fe_rewards' = DiscountedReturns(rewards, gamma)
    /\ pc' = "fe_normalize"
    /\ UNCHANGED <<interrupted, i_episode, t, done, saved_actions, rewards, k,
                   grad, params, running_reward, reward_threshold, gamma>>

\* ---- finish_episode, lines 178-179 ----
Normalize ==
    /\ pc = "fe_normalize" /\ ~interrupted
    /\ fe_rewards' = Normalized(fe_rewards)
    /\ k' = 0
    /\ pc' = "fe_reinforce"
    /\ UNCHANGED <<interrupted, i_episode, t, done, saved_actions, rewards,
                   grad, params, running_reward, reward_threshold, gamma>>

\* ---- finish_episode, lines 180-181: one iteration of the zip loop, or its end ----
Reinforce ==
    /\ pc = "fe_reinforce" /\ ~interrupted
    /\ IF k < Min(Len(saved_actions), Len(fe_rewards))
          THEN /\ saved_actions' =
                    [saved_actions EXCEPT ![k + 1].reward = <<fe_rewards[k + 1]>>]
               /\ k' = k + 1
               /\ pc' = pc
          ELSE /\ pc' = "fe_zero_grad"
               /\ UNCHANGED <<saved_actions, k>>
    /\ UNCHANGED <<interrupted, i_episode, t, done, rewards, fe_rewards, grad,
                   params, running_reward, reward_threshold, gamma>>

\* ---- finish_episode, line 182 ----
ZeroGrad ==
    /\ pc = "fe_zero_grad" /\ ~interrupted
    /\ grad' = <<>>
    /\ pc' = "fe_backward"
    /\ UNCHANGED <<interrupted, i_episode, t, done, saved_actions, rewards,
                   fe_rewards, k, params, running_reward, reward_threshold, gamma>>

\* ---- finish_episode, line 183: a stochastic node that was given no reward
\* makes autograd.backward raise ----
Backward ==
    /\ pc = "fe_backward" /\ ~interrupted
    /\ IF \E i \in 1..Len(saved_actions) : saved_actions[i].reward = <<>>
          THEN pc' = "error" /\ grad' = grad
          ELSE /\ grad' = grad \o [i \in 1..Len(saved_actions) |->
                                      <<saved_actions[i].ep, saved_actions[i].t>>]
               /\ pc' = "fe_step"
    /\ UNCHANGED <<interrupted, i_episode, t, done, saved_actions, rewards,
                   fe_rewards, k, params, running_reward, reward_threshold, gamma>>

\* ---- finish_episode, line 184 ----
OptimizerStepPartial ==
    /\ pc = "fe_step" /\ ~interrupted
    /\ params' = [params EXCEPT !.affine1 = @ + 1]
    /\ pc' = "fe_del_rewards"
    /\ UNCHANGED <<interrupted, i_episode, t, done, saved_actions, rewards,
                   fe_rewards, k, grad, running_reward, reward_threshold, gamma>>

OptimizerStep ==
    /\ pc = "fe_step" /\ ~interrupted
    /\ params' = [affine1 |-> params.affine1 + 1, affine2 |-> params.affine2 + 1]
    /\ pc' = "fe_del_rewards"
    /\ UNCHANGED <<interrupted, i_episode, t, done, saved_actions, rewards,
                   fe_rewards, k, grad, running_reward, reward_threshold, gamma>>

\* ---- finish_episode, line 185 ----
DelRewardsKeep ==
    /\ pc = "fe_del_rewards" /\ ~interrupted
    /\ pc' = "fe_del_actions"
    /\ UNCHANGED <<interrupted, i_episode, t, done, saved_actions, rewards,
                   fe_rewards, k, grad, params, running_reward,
                   reward_threshold, gamma>>

DelRewards ==
    /\ pc = "fe_del_rewards" /\ ~interrupted
    /\ rewards' = <<>>
    /\ pc' = "fe_del_actions"
    /\ UNCHANGED <<interrupted, i_episode, t, done, saved_actions, fe_rewards,
                   k, grad, params, running_reward, reward_threshold, gamma>>

\* ---- finish_episode, line 186, and the return to main (the locals are gone) ----
DelSavedActions ==
    /\ pc = "fe_del_actions" /\ ~interrupted
    /\ saved_actions' = <<>>
    /\ fe_rewards' = <<>>
    /\ k' = 0
    /\ pc' = "check"
    /\ UNCHANGED <<interrupted, i_episode, t, done, rewards, grad, params,
                   running_reward, reward_threshold, gamma>>

\* ---- main, lines 290-293 ----
CheckThresholdGE ==
    /\ pc = "check" /\ ~interrupted
    /\ IF ~RatGT(reward_threshold, running_reward)
          THEN pc' = "converged"
          ELSE pc' = "reset"
    /\ UNCHANGED <<interrupted, i_episode, t, done, saved_actions, rewards,
                   fe_rewards, k, grad, params, running_reward,
                   reward_threshold, gamma>>

CheckThreshold ==
    /\ pc = "check" /\ ~interrupted
    /\ IF RatGT(running_reward, reward_threshold)
          THEN pc' = "converged"
          ELSE pc' = "reset"
    /\ UNCHANGED <<interrupted, i_episode, t, done, saved_actions, rewards,
                   fe_rewards, k, grad, params, running_reward,
                   reward_threshold, gamma>>

\* ---- KeyboardInterrupt (the run recorded in the notebook ends with one,
\* raised inside finish_episode): the loop stops where it is ----
Interrupt ==
    /\ ~interrupted
    /\ pc \notin {"converged", "error"}
    /\ interrupted' = TRUE
    /\ UNCHANGED <<pc, i_episode, t, done, saved_actions, rewards, fe_rewards,
                   k, grad, params, running_reward, reward_threshold, gamma>>

Run ==
    \/ Reset
    \/ SelectAction
    \/ EnvStep
    \/ UpdateRunningReward
    \/ ComputeReturns
    \/ Normalize
    \/ Reinforce
    \/ ZeroGrad
    \/ Backward
    \/ OptimizerStep
    \/ DelRewards
    \/ DelSavedActions
    \/ CheckThreshold

Next == Run \/ Interrupt

Spec == Init /\ [][Next]_vars

\* the interpreter keeps executing the statements of the timestep loop
\* (lines 274-283); env.step returns
LiveSpec ==
    Spec /\ WF_vars(SelectAction) /\ WF_vars(EnvStep) /\ WF_vars(UpdateRunningReward)

\* ---- finish_episode called on arbitrary buffers ----
MaxBuf == 3

FreshActions(n) == [i \in 1..n |-> [ep |-> 1, t |-> i - 1, reward |-> <<>>]]

SeqsUpTo(S, n) == UNION {[1..m -> S] : m \in 1..n}

InitFE ==
    /\ pc = "fe_returns"
    /\ interrupted = FALSE
    /\ i_episode = 1
    /\ t = 0
    /\ done = TRUE
    /\ \E n \in 1..MaxBuf : saved_actions = FreshActions(n)
    /\ rewards \in SeqsUpTo(Rewards, MaxBuf)
    /\ fe_rewards = <<>>
    /\ k = 0
    /\ grad = <<>>
    /\ params = [affine1 |-> 0, affine2 |-> 0]
    /\ running_reward = RatOfInt(10)
    /\ reward_threshold = <<195, 1>>
    /\ gamma \in Gammas

NextFE ==
    \/ ComputeReturns
    \/ Normalize
    \/ Reinforce
    \/ ZeroGrad
    \/ Backward
    \/ OptimizerStep
    \/ DelRewards
    \/ DelSavedActions

SpecFE == InitFE /\ [][NextFE]_vars

\* ---- properties ----
RECURSIVE RatPow(_, _)
RatPow(g, n) == IF n = 0 THEN RatOfInt(1) ELSE RatMul(g, RatPow(g, n - 1))

RECURSIVE DiscountedSum(_, _, _, _)
DiscountedSum(rs, g, i, j) ==
    IF j < i THEN RatOfInt(0)
    ELSE RatAdd(RatMul(RatOfInt(rs[j]), RatPow(g, j - i)),
                DiscountedSum(rs, g, i, j - 1))

C2_SingleCommit ==
    [][params' # params =>
          /\ pc = "fe_step"
          /\ Len(rewards) = t + 1
          /\ \A j \in 0..t : \E i \in 1..Len(grad) : grad[i] = <<i_episode, j>>
          /\ params.affine1 = i_episode - 1
          /\ params'.affine1 = i_episode]_vars

C2_Witness ==
    /\ pc = "fe_del_rewards"
    /\ i_episode = 2
    /\ params.affine1 = 2
    /\ Len(rewards) = StepCap

\* C3: the loop reaches "converged" only from the threshold check at the
\* episode boundary, and the check leads to "converged" exactly when
\* running_reward > reward_threshold, otherwise back to the reset.
C3_StopCondition ==
    [][/\ (pc' = "converged" => pc \in {"check", "converged"})
       /\ (pc = "check" /\ pc' # "check" =>
              IF RatGT(running_reward, reward_threshold)
                 THEN pc' = "converged"
                 ELSE pc' = "reset")]_vars

C3_Witness ==
    /\ pc = "reset"
    /\ i_episode = 1
    /\ running_reward = reward_threshold

\* C4: when finish_episode is entered the two buffers have the same length.
C4_BufferParity ==
    pc = "fe_returns" => Len(saved_actions) = Len(rewards)

C4_Witness ==
    /\ pc = "fe_returns"
    /\ ~done
    /\ Len(rewards) = StepCap
    /\ Len(saved_actions) = StepCap

\* C5: the update of line 283 sets the signal to
\* signal * 0.99 + (number of rewards recorded in the episode) * 0.01.
C5_RunningRewardUsesLength ==
    [][pc = "running" /\ pc' = "fe_returns" =>
          running_reward' = RatAdd(RatMul(running_reward, <<99, 100>>),
                                   RatMul(RatOfInt(Len(rewards)), <<1, 100>>))]_vars

\* C6: for an episode of one reward the single normalised return is 0, a number.
C6_LengthOneIsZero ==
    pc = "fe_reinforce" /\ Len(rewards) = 1 =>
        /\ Len(fe_rewards) = 1
        /\ NormIsFinite(fe_rewards[1])
        /\ NormIsZero(fe_rewards[1])

C8_BuffersCleared ==
    /\ pc = "reset" => saved_actions = <<>> /\ rewards = <<>>
    /\ pc \in {"fe_returns", "fe_normalize", "fe_reinforce", "fe_zero_grad",
               "fe_backward", "fe_step", "fe_del_rewards"} =>
          /\ Len(saved_actions) = t + 1
          /\ Len(rewards) = t + 1
          /\ \A i \in 1..Len(saved_actions) :
                 saved_actions[i].ep = i_episode /\ saved_actions[i].t = i - 1

C8_Witness ==
    /\ pc = "fe_step"
    /\ i_episode = 2
    /\ Len(saved_actions) = 2

\* C9: the timestep loop is left as soon as done is reported and at the
\* latest after StepCap timesteps, with one reward recorded per timestep,
\* and every episode that is started reaches finish_episode (unless the
\* run is interrupted).
C9_EpisodeEnds ==
    /\ [](done => pc \notin {"select", "step"})
    /\ [](pc \in {"select", "step"} => t < StepCap)
    /\ [](pc \in {"running", "fe_returns"} =>
             /\ Len(rewards) = t + 1
             /\ Len(rewards) <= StepCap
             /\ (done \/ Len(rewards) = StepCap))
    /\ ((pc = "select") ~> (pc = "fe_returns" \/ interrupted))

C9_Witness ==
    /\ pc = "fe_returns"
    /\ ~done
    /\ Len(rewards) = StepCap
    /\ i_episode = MaxEpisodes

\* C10: optimizer.step() of finish_episode is reached only with buffers of
\* the same length.
C10_MismatchIsFatal ==
    pc = "fe_del_rewards" => Len(saved_actions) = Len(rewards)

====
